---------------------------- MODULE Spec2Model ----------------------------
(***************************************************************************)
(* Model of the Salish Sea NEMO nowcast manager                            *)
(* (salishsea_tools/nowcast/nowcast_mgr.py), of the workers that talk to   *)
(* it over a ZeroMQ REQ/REP socket, and of the HTTP download helper        *)
(* get_web_data (salishsea_tools/nowcast/lib.py).                          *)
(*                                                                         *)
(* Two state machines share the variables of this module:                  *)
(*   Spec     the manager's main loop and the workers that send to it;     *)
(*   WebSpec  one call of lib.get_web_data (WebLive adds fairness).        *)
(* Each specification leaves the other machine's variables untouched.      *)
(***************************************************************************)
EXTENDS Integers, Sequences, FiniteSets, TLC

VARIABLES
    \* ---- nowcast_mgr.py ----
    mgr_pc,          \* position of the manager in main()'s while loop
    exception,       \* the exception that ended the manager, or "none"
    inbox,           \* requests queued at the manager's REP socket
    message,         \* main(): the message being handled (NoMsg before the first)
    peer,            \* the process whose request is being handled
    reply,           \* main(): reply computed by parse_message
    next_step,       \* main(): follow-up action chosen by parse_message
    next_step_args,  \* main(): its arguments
    checklist,       \* module global checklist = {}
    received,        \* number of socket.recv() calls that returned
    sent,            \* number of socket.send(reply) calls
    steps,           \* number of next_step(*next_step_args) calls started
    worker_pc,       \* per worker: "idle" or "awaiting" (blocked in socket.recv)
    worker_reply,    \* per worker: the last reply the worker received
    child_pc,        \* the grib_to_netcdf process launched by launch_worker
    child_status,    \* its exit status once it has exited
    nsent,           \* number of messages workers have sent so far
    dispatch_log,    \* history: what parse_message returned for each message
    \* ---- lib.get_web_data ----
    web_pc,          \* position inside get_web_data
    first_retry_delay,
    retry_backoff_factor,
    retry_time_limit,
    delay,           \* local variable delay
    retries,         \* local variable retries
    wait,            \* argument of the last time.sleep(delay) call, Unset before
    prev_wait,       \* argument of the time.sleep call before that
    attempts,        \* number of requests.get calls made
    successes,       \* number of those whose raise_for_status() did not raise
    response,        \* content of the last response
    result,          \* value returned by get_web_data
    \* ---- message types and serialization (nowcast workers, lib.py) ----
    msg_pc,          \* how far the message has got
    parsed_worker,   \* the worker module whose functions are called
    parsed_args,     \* its parsed command line
    called,          \* the function called: "success" or "failure"
    out_msg_type,    \* the message type that function returned
    in_payload,      \* the payload handed to serialize_message
    wire,            \* what serialize_message returned
    decoded,         \* what deserialize_message returned
    \* ---- one run of a worker (workers/*.py main) ----
    run_pc,          \* where main is
    run_worker,      \* the worker module that runs
    run_args,        \* its parsed command line
    run_outcome,     \* how the work function ended
    run_checklist,   \* main's local checklist
    success,         \* download_weather's local success
    telling,         \* the kind of message being exchanged
    run_sent,        \* the messages sent to the manager, in order
    run_replies      \* the manager's replies received, in order

mgr_vars == <<mgr_pc, exception, inbox, message, peer, reply, next_step,
              next_step_args, checklist, received, sent, steps, worker_pc,
              worker_reply, child_pc, child_status, nsent, dispatch_log>>

web_vars == <<web_pc, first_retry_delay, retry_backoff_factor,
              retry_time_limit, delay, retries, wait, prev_wait, attempts,
              successes, response, result>>

msg_vars == <<msg_pc, parsed_worker, parsed_args, called, out_msg_type,
              in_payload, wire, decoded>>

run_vars == <<run_pc, run_worker, run_args, run_outcome, run_checklist,
              success, telling, run_sent, run_replies>>

vars == <<mgr_vars, web_vars, msg_vars, run_vars>>

None == "None"

\* Value of an integer local variable that has not been assigned yet.
Unset == -1

Min(a, b) == IF a <= b THEN a ELSE b

(***************************************************************************)
(* lib.get_web_data                                                        *)
(***************************************************************************)

\* Bounds of the argument values that are explored.
MaxFirstDelay == 3
MaxBackoffFactor == 3
MaxTimeLimit == 9
\* The counters retries, attempts and successes saturate at this value so
\* that a retry loop that never ends is a finite cycle of states.
CounterCap == 13

\* Default argument values of get_web_data.
default_first_retry_delay == 2
default_retry_backoff_factor == 2
default_retry_time_limit == 60 * 60

FirstDelays == 0..MaxFirstDelay
BackoffFactors == 0..MaxBackoffFactor
TimeLimits == 0..MaxTimeLimit \cup {default_retry_time_limit}

\* What one download attempt can give: an HTTP error status, or content.
HTTPError == "HTTPError"
Contents == {"content_a", "content_b"}

Bump(n) == Min(n + 1, CounterCap)

\* Variant: the loop tests the delay of the retry before.
RetryLoopGuard_TestsPreviousDelay(d, limit) == d \div 2 <= limit

\* while delay <= retry_time_limit:
RetryLoopGuard(d, limit) == d <= limit

\* Variant: the factor is added, not multiplied.
NextDelay_Additive(d, factor) == d + factor

\* Variant: the delay is never increased.
NextDelay_NoBackoff(d, factor) == d

\* delay *= retry_backoff_factor
NextDelay(d, factor) == d * factor

\* _handle_url_content(response, filepath): the text of the response (or its
\* headers once the content is stored); the model keeps the content itself.
HandleUrlContent(resp) == resp

WebIdle ==
    /\ web_pc = "idle"
    /\ first_retry_delay = default_first_retry_delay
    /\ retry_backoff_factor = default_retry_backoff_factor
    /\ retry_time_limit = default_retry_time_limit
    /\ delay = Unset
    /\ retries = Unset
    /\ wait = Unset
    /\ prev_wait = Unset
    /\ attempts = 0
    /\ successes = 0
    /\ response = None
    /\ result = None

\* get_web_data is called with some arguments.
WebInit ==
    /\ web_pc = "called"
    /\ first_retry_delay \in FirstDelays
    /\ retry_backoff_factor \in BackoffFactors
    /\ retry_time_limit \in TimeLimits
    /\ delay = Unset
    /\ retries = Unset
    /\ wait = Unset
    /\ prev_wait = Unset
    /\ attempts = 0
    /\ successes = 0
    /\ response = None
    /\ result = None

\* Lines 294-297: the initial attempt succeeds.
FirstAttemptOk ==
    /\ web_pc = "called"
    /\ \E c \in Contents :
        /\ response' = c
        /\ result' = HandleUrlContent(c)
    /\ attempts' = Bump(attempts)
    /\ successes' = Bump(successes)
    /\ web_pc' = "returned"
    /\ UNCHANGED <<first_retry_delay, retry_backoff_factor, retry_time_limit,
                   delay, retries, wait, prev_wait>>
    /\ UNCHANGED <<mgr_vars, msg_vars, run_vars>>

\* Lines 294-301: the initial attempt fails with an HTTP error.
FirstAttemptFails ==
    /\ web_pc = "called"
    /\ response' = HTTPError
    /\ attempts' = Bump(attempts)
    /\ delay' = first_retry_delay
    /\ retries' = 0
    /\ web_pc' = "loop"
    /\ UNCHANGED <<first_retry_delay, retry_backoff_factor, retry_time_limit,
                   wait, prev_wait, successes, result>>
    /\ UNCHANGED <<mgr_vars, msg_vars, run_vars>>

\* Lines 302-304: the loop test holds and the function sleeps.
Sleep ==
    /\ web_pc = "loop"
    /\ RetryLoopGuard(delay, retry_time_limit)
    /\ wait' = delay
    /\ prev_wait' = wait
    /\ web_pc' = "retry"
    /\ UNCHANGED <<first_retry_delay, retry_backoff_factor, retry_time_limit,
                   delay, retries, attempts, successes, response, result>>
    /\ UNCHANGED <<mgr_vars, msg_vars, run_vars>>

\* Variant: a retry that succeeds does not return; the loop goes on.
RetryOk_KeepsRetrying ==
    /\ web_pc = "retry"
    /\ \E c \in Contents :
        /\ response' = c
        /\ result' = HandleUrlContent(c)
    /\ attempts' = Bump(attempts)
    /\ successes' = Bump(successes)
    /\ delay' = NextDelay(delay, retry_backoff_factor)
    /\ retries' = Bump(retries)
    /\ web_pc' = "loop"
    /\ UNCHANGED <<first_retry_delay, retry_backoff_factor, retry_time_limit,
                   wait, prev_wait>>
    /\ UNCHANGED <<mgr_vars, msg_vars, run_vars>>

\* Lines 305-308: a retry succeeds.
RetryOk ==
    /\ web_pc = "retry"
    /\ \E c \in Contents :
        /\ response' = c
        /\ result' = HandleUrlContent(c)
    /\ attempts' = Bump(attempts)
    /\ successes' = Bump(successes)
    /\ web_pc' = "returned"
    /\ UNCHANGED <<first_retry_delay, retry_backoff_factor, retry_time_limit,
                   delay, retries, wait, prev_wait>>
    /\ UNCHANGED <<mgr_vars, msg_vars, run_vars>>

\* Lines 305-313: a retry fails with an HTTP error.
RetryFails ==
    /\ web_pc = "retry"
    /\ response' = HTTPError
    /\ attempts' = Bump(attempts)
    /\ delay' = NextDelay(delay, retry_backoff_factor)
    /\ retries' = Bump(retries)
    /\ web_pc' = "loop"
    /\ UNCHANGED <<first_retry_delay, retry_backoff_factor, retry_time_limit,
                   wait, prev_wait, successes, result>>
    /\ UNCHANGED <<mgr_vars, msg_vars, run_vars>>

\* Lines 302, 314-317: the loop test fails; give up and raise WorkerError.
GiveUp ==
    /\ web_pc = "loop"
    /\ ~RetryLoopGuard(delay, retry_time_limit)
    /\ web_pc' = "raised"
    /\ UNCHANGED <<first_retry_delay, retry_backoff_factor, retry_time_limit,
                   delay, retries, wait, prev_wait, attempts, successes,
                   response, result>>
    /\ UNCHANGED <<mgr_vars, msg_vars, run_vars>>

WebDone == web_pc \in {"returned", "raised"}


(***************************************************************************)
(* Strings.  Message types are tested with str.startswith and              *)
(* str.endswith, so they are sequences of characters.                      *)
(***************************************************************************)

StartsWith(s, prefix) ==
    /\ Len(prefix) <= Len(s)
    /\ SubSeq(s, 1, Len(prefix)) = prefix

EndsWith(s, suffix) ==
    /\ Len(suffix) <= Len(s)
    /\ SubSeq(s, Len(s) - Len(suffix) + 1, Len(s)) = suffix

str_success == <<"s", "u", "c", "c", "e", "s", "s">>
str_failure == <<"f", "a", "i", "l", "u", "r", "e">>
str_crash == <<"c", "r", "a", "s", "h">>
str_the_end == <<"t", "h", "e", " ", "e", "n", "d">>
str_06 == <<"0", "6">>
str_18 == <<"1", "8">>
str_ack == <<"a", "c", "k">>
str_undefined_msg ==
    <<"u", "n", "d", "e", "f", "i", "n", "e", "d", " ", "m", "s", "g">>

\* '{} {}'.format(status, forecast)
Format2(a, b) == a \o <<" ">> \o b

success_06 == Format2(str_success, str_06)
success_18 == Format2(str_success, str_18)
failure_06 == Format2(str_failure, str_06)
failure_18 == Format2(str_failure, str_18)

(***************************************************************************)
(* Configuration and messages                                              *)
(***************************************************************************)

\* mgr_name = lib.get_module_name()
mgr_name == "nowcast_mgr"

\* Processes with a REQ socket connected to the manager.
Workers == {"download_weather", "get_NeahBay_ssh", "make_runoff_file",
            "grib_to_netcdf", "push_to_web"}

\* config['msg_types']: for each source the message types defined for it
\* (the keys of the dict; the values are words for the log).
config_msg_types ==
    [w \in Workers \cup {mgr_name} |->
        CASE w = mgr_name -> {str_ack, str_undefined_msg}
          [] w = "download_weather" ->
                {success_06, failure_06, success_18, failure_18, str_the_end}
          [] w = "push_to_web" ->
                {str_success, str_failure, str_crash, str_the_end}
          [] OTHER -> {str_success, str_failure}]

config ==
    [msg_types |-> config_msg_types,
     python |-> "python",
     config_file |-> "nowcast.yaml"]

\* Payloads of success messages: a worker's own checklist.
Payloads == {"items_a", "items_b"}

\* serialize_message(source, msg_type, payload=None): the message dict.
Message(source, msg_type, payload) ==
    [source |-> source, msg_type |-> msg_type, payload |-> payload]

NoMsg == Message(None, <<>>, None)

\* The message types a worker process is made to send: types defined for
\* it, and for two workers some that are not.
SentTypes(w) ==
    CASE w = "download_weather" -> config_msg_types[w] \cup {str_success}
      [] w = "get_NeahBay_ssh" ->
            config_msg_types[w] \cup {str_crash, success_06, str_the_end}
      [] w = "make_runoff_file" -> config_msg_types[w]
      [] w = "grib_to_netcdf" -> {str_success}
      [] OTHER -> config_msg_types[w]

\* The payloads that go with them: download_weather sends none, the other
\* workers send their checklist with a success message; get_NeahBay_ssh is
\* made to send either of two.
SentPayloads(w, t) ==
    IF ~StartsWith(t, str_success) \/ w = "download_weather"
    THEN {None}
    ELSE IF w = "get_NeahBay_ssh" /\ t = str_success
         THEN Payloads
         ELSE {"items_a"}

\* The reports of the grib_to_netcdf process that the manager launched.
ChildTypes == {str_success, str_failure}

\* Bound on the number of messages the workers send in one run.
MaxMsgs == 3

(***************************************************************************)
(* nowcast_mgr.parse_message                                               *)
(***************************************************************************)

\* A local variable that holds a message, or names a function, and has no
\* value yet.
Unbound == [source |-> "<unbound>", msg_type |-> <<>>, payload |-> None]
NoStep == "<unbound>"

reply_ack == Message(mgr_name, str_ack, None)
reply_undefined == Message(mgr_name, str_undefined_msg, None)

Parsed(raised, r, step, args) ==
    [raised |-> raised, reply |-> r, next_step |-> step,
     next_step_args |-> args]

\* Lines 66-81: defaults, and the test of the message type.
ParseDefaults(cfg, worker, msg_type) ==
    Parsed("none",
           IF msg_type \notin cfg.msg_types[worker]
           THEN reply_undefined ELSE Unbound,
           "do_nothing", <<>>)

\* Variant: make_runoff_file is filed under the key of get_NeahBay_ssh.
ParseSuccess_SharedKey(acc, worker, msg_type, payload) ==
    IF ~StartsWith(msg_type, str_success) THEN acc
    ELSE
        LET a1 == IF worker = "download_weather" /\ EndsWith(msg_type, str_06)
                  THEN [acc EXCEPT !.reply = reply_ack]
                  ELSE acc
            a2 == IF worker = "download_weather" /\ EndsWith(msg_type, str_18)
                  THEN Parsed("none", reply_ack, "launch_worker",
                              <<"grib_to_netcdf", "config">>)
                  ELSE a1
            a3 == IF worker = "get_NeahBay_ssh"
                  THEN Parsed("none", reply_ack, "update_checklist",
                              <<worker, "sshNeahBay", payload>>)
                  ELSE a2
            a4 == IF worker = "make_runoff_file"
                  THEN Parsed("none", reply_ack, "update_checklist",
                              <<worker, "sshNeahBay", payload>>)
                  ELSE a3
            a5 == IF worker = "grib_to_netcdf"
                  THEN Parsed("none", reply_ack, "update_checklist",
                              <<worker, "weather forcing", payload>>)
                  ELSE a4
        IN a5

\* Lines 82-100
ParseSuccess(acc, worker, msg_type, payload) ==
    IF ~StartsWith(msg_type, str_success) THEN acc
    ELSE
        LET a1 == IF worker = "download_weather" /\ EndsWith(msg_type, str_06)
                  THEN [acc EXCEPT !.reply = reply_ack]
                  ELSE acc
            a2 == IF worker = "download_weather" /\ EndsWith(msg_type, str_18)
                  THEN Parsed("none", reply_ack, "launch_worker",
                              <<"grib_to_netcdf", "config">>)
                  ELSE a1
            a3 == IF worker = "get_NeahBay_ssh"
                  THEN Parsed("none", reply_ack, "update_checklist",
                              <<worker, "sshNeahBay", payload>>)
                  ELSE a2
            a4 == IF worker = "make_runoff_file"
                  THEN Parsed("none", reply_ack, "update_checklist",
                              <<worker, "rivers", payload>>)
                  ELSE a3
            a5 == IF worker = "grib_to_netcdf"
                  THEN Parsed("none", reply_ack, "update_checklist",
                              <<worker, "weather forcing", payload>>)
                  ELSE a4
        IN a5

\* Lines 101-111
ParseFailure(acc, worker, msg_type) ==
    IF ~StartsWith(msg_type, str_failure) THEN acc
    ELSE
        IF \/ worker = "download_weather" /\ EndsWith(msg_type, str_06)
           \/ worker = "download_weather" /\ EndsWith(msg_type, str_18)
           \/ worker = "get_NeahBay_ssh"
           \/ worker = "make_runoff_file"
           \/ worker = "grib_to_netcdf"
        THEN [acc EXCEPT !.reply = reply_ack]
        ELSE acc

\* Lines 112-116
ParseTheEnd(acc, msg_type) ==
    IF msg_type = str_the_end
    THEN Parsed("none", reply_ack, "finish_automation", <<"config">>)
    ELSE acc

\* Lines 66-116: the chain of tests in the order of the code.
ParseStages(cfg, worker, msg_type, payload) ==
    ParseTheEnd(
        ParseFailure(
            ParseSuccess(ParseDefaults(cfg, worker, msg_type),
                         worker, msg_type, payload),
            worker, msg_type),
        msg_type)

\* Variant: a worker whose key is already on the checklist is acknowledged
\* but its checklist is not recorded again.
ParseMessage_ConsultsChecklist(cfg, msg) ==
    LET worker == msg.source
        msg_type == msg.msg_type
        payload == msg.payload
    IN IF worker \notin DOMAIN cfg.msg_types
       THEN Parsed("KeyError", Unbound, NoStep, <<>>)
       ELSE LET acc == ParseStages(cfg, worker, msg_type, payload)
            IN IF acc.reply = Unbound
               THEN Parsed("UnboundLocalError", Unbound, NoStep, <<>>)
               ELSE IF /\ acc.next_step = "update_checklist"
                       /\ acc.next_step_args[2] \in DOMAIN checklist
                    THEN Parsed("none", reply_ack, "do_nothing", <<>>)
                    ELSE acc

\* parse_message(config, message).  The lookup config['msg_types'][worker]
\* raises KeyError for a source that the configuration does not know, and
\* the return statement raises UnboundLocalError when no branch assigned
\* reply.
ParseMessage(cfg, msg) ==
    LET worker == msg.source
        msg_type == msg.msg_type
        payload == msg.payload
    IN IF worker \notin DOMAIN cfg.msg_types
       THEN Parsed("KeyError", Unbound, NoStep, <<>>)
       ELSE LET acc == ParseStages(cfg, worker, msg_type, payload)
            IN IF acc.reply = Unbound
               THEN Parsed("UnboundLocalError", Unbound, NoStep, <<>>)
               ELSE acc

(***************************************************************************)
(* nowcast_mgr.main and the follow-up actions                              *)
(***************************************************************************)

\* checklist = {}
EmptyDict == [k \in {} |-> None]

\* dict.update({key: value})
DictUpdate(d, key, value) ==
    [k \in DOMAIN d \cup {key} |-> IF k = key THEN value ELSE d[k]]

\* A request queued at the REP socket, with the peer the reply goes to.
Request(from, msg) == [peer |-> from, msg |-> msg]

MgrIdle ==
    /\ mgr_pc = "listening"
    /\ exception = "none"
    /\ inbox = <<>>
    /\ message = NoMsg
    /\ peer = None
    /\ reply = Unbound
    /\ next_step = NoStep
    /\ next_step_args = <<>>
    /\ checklist = EmptyDict
    /\ received = 0
    /\ sent = 0
    /\ steps = 0
    /\ worker_pc = [w \in Workers |-> "idle"]
    /\ worker_reply = [w \in Workers |-> Unbound]
    /\ child_pc = "none"
    /\ child_status = Unset
    /\ nsent = 0
    /\ dispatch_log = {}

\* A worker sends a message and blocks in socket.recv()
\* (download_weather.tell_manager and the_end).
WorkerSend(w, t, p) ==
    /\ worker_pc[w] = "idle"
    /\ nsent < MaxMsgs
    /\ inbox' = Append(inbox, Request(w, Message(w, t, p)))
    /\ worker_pc' = [worker_pc EXCEPT ![w] = "awaiting"]
    /\ nsent' = nsent + 1
    /\ UNCHANGED <<mgr_pc, exception, message, peer, reply, next_step,
                   next_step_args, checklist, received, sent, steps,
                   worker_reply, child_pc, child_status, dispatch_log>>
    /\ UNCHANGED <<web_vars, msg_vars, run_vars>>

\* Variant: the follow-up action runs right after parse_message, before
\* the reply is sent.
MgrRecv_FollowUpFirst ==
    /\ mgr_pc = "listening"
    /\ inbox # <<>>
    /\ LET req == Head(inbox)
           parsed == ParseMessage(config, req.msg)
       IN /\ message' = req.msg
          /\ peer' = req.peer
          /\ inbox' = Tail(inbox)
          /\ received' = received + 1
          /\ dispatch_log' = dispatch_log \cup
                {[message |-> req.msg, checklist |-> checklist,
                  parsed |-> parsed]}
          /\ IF parsed.raised = "none"
             THEN /\ reply' = parsed.reply
                  /\ next_step' = parsed.next_step
                  /\ next_step_args' = parsed.next_step_args
                  /\ mgr_pc' = "step"
                  /\ UNCHANGED exception
             ELSE /\ exception' = parsed.raised
                  /\ mgr_pc' = "crashed"
                  /\ UNCHANGED <<reply, next_step, next_step_args>>
    /\ UNCHANGED <<checklist, sent, steps, worker_pc, worker_reply, child_pc,
                   child_status, nsent>>
    /\ UNCHANGED <<web_vars, msg_vars, run_vars>>

\* main, lines 47-48: message = socket.recv(), then parse_message.  An
\* exception raised by parse_message is not caught and ends the manager.
MgrRecv ==
    /\ mgr_pc = "listening"
    /\ inbox # <<>>
    /\ LET req == Head(inbox)
           parsed == ParseMessage(config, req.msg)
       IN /\ message' = req.msg
          /\ peer' = req.peer
          /\ inbox' = Tail(inbox)
          /\ received' = received + 1
          /\ dispatch_log' = dispatch_log \cup
                {[message |-> req.msg, checklist |-> checklist,
                  parsed |-> parsed]}
          /\ IF parsed.raised = "none"
             THEN /\ reply' = parsed.reply
                  /\ next_step' = parsed.next_step
                  /\ next_step_args' = parsed.next_step_args
                  /\ mgr_pc' = "send"
                  /\ UNCHANGED exception
             ELSE /\ exception' = parsed.raised
                  /\ mgr_pc' = "crashed"
                  /\ UNCHANGED <<reply, next_step, next_step_args>>
    /\ UNCHANGED <<checklist, sent, steps, worker_pc, worker_reply, child_pc,
                   child_status, nsent>>
    /\ UNCHANGED <<web_vars, msg_vars, run_vars>>

\* main, line 49: socket.send(reply).  The reply goes to the peer whose
\* request was received; a peer that has gone does not get it.
MgrSend ==
    /\ mgr_pc = "send"
    /\ sent' = sent + 1
    /\ mgr_pc' = "step"
    /\ IF peer = "child"
       THEN /\ UNCHANGED <<worker_pc, worker_reply>>
            /\ IF child_pc = "awaiting"
               THEN child_pc' = "exited" /\ child_status' = 0
               ELSE UNCHANGED <<child_pc, child_status>>
       ELSE /\ worker_pc' = [worker_pc EXCEPT ![peer] = "idle"]
            /\ worker_reply' = [worker_reply EXCEPT ![peer] = reply]
            /\ UNCHANGED <<child_pc, child_status>>
    /\ UNCHANGED <<exception, inbox, message, peer, reply, next_step,
                   next_step_args, checklist, received, steps, nsent,
                   dispatch_log>>
    /\ UNCHANGED <<web_vars, msg_vars, run_vars>>

\* main, line 50, with next_step = do_nothing.
MgrDoNothing ==
    /\ mgr_pc = "step"
    /\ next_step = "do_nothing"
    /\ steps' = steps + 1
    /\ mgr_pc' = "listening"
    /\ UNCHANGED <<exception, inbox, message, peer, reply, next_step,
                   next_step_args, checklist, received, sent, worker_pc,
                   worker_reply, child_pc, child_status, nsent, dispatch_log>>
    /\ UNCHANGED <<web_vars, msg_vars, run_vars>>

\* Variant: the checklist is rebound to a dict with the one new entry.
UpdateChecklist_RebindsChecklist(worker, key, worker_checklist) ==
    checklist' = DictUpdate(EmptyDict, key, worker_checklist)

\* update_checklist(worker, key, worker_checklist)
UpdateChecklist(worker, key, worker_checklist) ==
    checklist' = DictUpdate(checklist, key, worker_checklist)

\* main, line 50, with next_step = update_checklist.
MgrUpdateChecklist ==
    /\ mgr_pc = "step"
    /\ next_step = "update_checklist"
    /\ steps' = steps + 1
    /\ UpdateChecklist(next_step_args[1], next_step_args[2],
                       next_step_args[3])
    /\ mgr_pc' = "listening"
    /\ UNCHANGED <<exception, inbox, message, peer, reply, next_step,
                   next_step_args, received, sent, worker_pc, worker_reply,
                   child_pc, child_status, nsent, dispatch_log>>
    /\ UNCHANGED <<web_vars, msg_vars, run_vars>>

\* finish_automation(config): "checklist = {}" binds a name local to the
\* function, so the module's checklist keeps its entries; rotate_log_file
\* touches only the log handlers.
FinishAutomation(cfg) ==
    checklist' = checklist

\* main, line 50, with next_step = finish_automation.
MgrFinishAutomation ==
    /\ mgr_pc = "step"
    /\ next_step = "finish_automation"
    /\ steps' = steps + 1
    /\ FinishAutomation(config)
    /\ mgr_pc' = "listening"
    /\ UNCHANGED <<exception, inbox, message, peer, reply, next_step,
                   next_step_args, received, sent, worker_pc, worker_reply,
                   child_pc, child_status, nsent, dispatch_log>>
    /\ UNCHANGED <<web_vars, msg_vars, run_vars>>

\* main, line 50, with next_step = launch_worker: launch_worker calls
\* lib.run_in_subprocess, whose subprocess.check_output starts the worker
\* process and does not return before that process has exited.
MgrLaunchWorker ==
    /\ mgr_pc = "step"
    /\ next_step = "launch_worker"
    /\ steps' = steps + 1
    /\ child_pc' = "running"
    /\ child_status' = Unset
    /\ mgr_pc' = "in_subprocess"
    /\ UNCHANGED <<exception, inbox, message, peer, reply, next_step,
                   next_step_args, checklist, received, sent, worker_pc,
                   worker_reply, nsent, dispatch_log>>
    /\ UNCHANGED <<web_vars, msg_vars, run_vars>>

\* lib.run_in_subprocess, lines 366-377: check_output returns when the
\* process has exited; a non-zero status raises WorkerError, which neither
\* launch_worker nor main catches.
MgrSubprocessReturns ==
    /\ mgr_pc = "in_subprocess"
    /\ child_pc = "exited"
    /\ IF child_status = 0
       THEN mgr_pc' = "listening" /\ UNCHANGED exception
       ELSE mgr_pc' = "crashed" /\ exception' = "WorkerError"
    /\ UNCHANGED <<inbox, message, peer, reply, next_step, next_step_args,
                   checklist, received, sent, steps, worker_pc, worker_reply,
                   child_pc, child_status, nsent, dispatch_log>>
    /\ UNCHANGED <<web_vars, msg_vars, run_vars>>

\* The launched grib_to_netcdf process reports to the manager and blocks in
\* socket.recv() waiting for the reply.
ChildSend(t, p) ==
    /\ child_pc = "running"
    /\ inbox' = Append(inbox,
                       Request("child", Message("grib_to_netcdf", t, p)))
    /\ child_pc' = "awaiting"
    /\ UNCHANGED <<mgr_pc, exception, message, peer, reply, next_step,
                   next_step_args, checklist, received, sent, steps,
                   worker_pc, worker_reply, child_status, nsent,
                   dispatch_log>>
    /\ UNCHANGED <<web_vars, msg_vars, run_vars>>

\* The launched process ends with a non-zero status before it has reported
\* (its command line or its configuration file is wrong).
ChildFails ==
    /\ child_pc = "running"
    /\ child_pc' = "exited"
    /\ child_status' = 1
    /\ UNCHANGED <<mgr_pc, exception, inbox, message, peer, reply, next_step,
                   next_step_args, checklist, received, sent, steps,
                   worker_pc, worker_reply, nsent, dispatch_log>>
    /\ UNCHANGED <<web_vars, msg_vars, run_vars>>

\* lib.install_signal_handlers: on SIGINT or SIGTERM the process destroys
\* its context and calls sys.exit(0).
ChildSignalled ==
    /\ child_pc \in {"running", "awaiting"}
    /\ child_pc' = "exited"
    /\ child_status' = 0
    /\ UNCHANGED <<mgr_pc, exception, inbox, message, peer, reply, next_step,
                   next_step_args, checklist, received, sent, steps,
                   worker_pc, worker_reply, nsent, dispatch_log>>
    /\ UNCHANGED <<web_vars, msg_vars, run_vars>>

(***************************************************************************)
(* Message types of the nowcast workers (watch_NEMO.py, ping_erddap.py)    *)
(***************************************************************************)

str_nowcast == <<"n", "o", "w", "c", "a", "s", "t">>
str_nowcast_green == <<"n", "o", "w", "c", "a", "s", "t", "-", "g", "r", "e", "e", "n">>
str_forecast == <<"f", "o", "r", "e", "c", "a", "s", "t">>
str_forecast2 == <<"f", "o", "r", "e", "c", "a", "s", "t", "2">>
str_download_weather == <<"d", "o", "w", "n", "l", "o", "a", "d", "_", "w", "e", "a", "t", "h", "e", "r">>

\* The choices of the run_type argument of watch_NEMO.
watch_NEMO_run_types ==
    {str_nowcast, str_nowcast_green, str_forecast, str_forecast2}

\* The choices of the dataset argument of ping_erddap.
ping_erddap_datasets ==
    {str_nowcast, str_nowcast_green, str_forecast, str_forecast2,
     str_download_weather}

\* The command lines that a worker's argument parser accepts; the argument
\* that the message type is made of is kept under the name "choice".
ParsedArgs(worker) ==
    IF worker = "watch_NEMO"
    THEN {[choice |-> c] : c \in watch_NEMO_run_types}
    ELSE {[choice |-> c] : c \in ping_erddap_datasets}

\* watch_NEMO.success(parsed_args)
watch_NEMO_success(args) == Format2(str_success, args.choice)

\* Variant: failure copied from success without changing the word.
watch_NEMO_failure_SaysSuccess(args) == Format2(str_success, args.choice)

\* watch_NEMO.failure(parsed_args)
watch_NEMO_failure(args) == Format2(str_failure, args.choice)

\* ping_erddap.success(parsed_args)
ping_erddap_success(args) == Format2(str_success, args.choice)

\* ping_erddap.failure(parsed_args)
ping_erddap_failure(args) == Format2(str_failure, args.choice)

(***************************************************************************)
(* lib.serialize_message and lib.deserialize_message                       *)
(*                                                                         *)
(* Python values carry their type.  yaml.dump turns a value into a         *)
(* document whose nodes carry a tag; yaml.safe_load builds a value from    *)
(* the nodes whose tags it knows and raises ConstructorError for any       *)
(* other.  Writing the nodes as text and reading the text back gives the   *)
(* same nodes, so the document is kept as its root node.                   *)
(***************************************************************************)

Py(type, val) == [type |-> type, val |-> val]

PyNone == Py("NoneType", "None")
PyTrue == Py("bool", "True")
PyFalse == Py("bool", "False")
PyInt(i) == Py("int", i)
PyStr(chars) == Py("str", chars)
PyList(items) == Py("list", items)
PyTuple(items) == Py("tuple", items)
PyDict(entries) == Py("dict", entries)

Node(tag, value) == [tag |-> tag, value |-> value]

\* yaml.dump (Dumper): the representers of the built-in types.
RECURSIVE Represent(_)
Represent(v) ==
    CASE v.type = "NoneType" -> Node("tag:yaml.org,2002:null", "null")
      [] v.type = "bool" ->
            Node("tag:yaml.org,2002:bool",
                 IF v.val = "True" THEN "true" ELSE "false")
      [] v.type = "int" -> Node("tag:yaml.org,2002:int", v.val)
      [] v.type = "str" -> Node("tag:yaml.org,2002:str", v.val)
      [] v.type = "list" ->
            Node("tag:yaml.org,2002:seq",
                 [i \in DOMAIN v.val |-> Represent(v.val[i])])
      [] v.type = "tuple" ->
            Node("tag:yaml.org,2002:python/tuple",
                 [i \in DOMAIN v.val |-> Represent(v.val[i])])
      [] v.type = "dict" ->
            Node("tag:yaml.org,2002:map",
                 [k \in DOMAIN v.val |-> Represent(v.val[k])])

YamlDump(v) == Represent(v)

\* The tags that yaml.safe_load (SafeLoader) has constructors for.
SafeScalarTags ==
    {"tag:yaml.org,2002:null", "tag:yaml.org,2002:bool",
     "tag:yaml.org,2002:int", "tag:yaml.org,2002:str"}

SafeCollectionTags == {"tag:yaml.org,2002:seq", "tag:yaml.org,2002:map"}

RECURSIVE Constructible(_)
Constructible(n) ==
    \/ n.tag \in SafeScalarTags
    \/ /\ n.tag \in SafeCollectionTags
       /\ \A k \in DOMAIN n.value : Constructible(n.value[k])

RECURSIVE Construct(_)
Construct(n) ==
    CASE n.tag = "tag:yaml.org,2002:null" -> PyNone
      [] n.tag = "tag:yaml.org,2002:bool" ->
            IF n.value = "true" THEN PyTrue ELSE PyFalse
      [] n.tag = "tag:yaml.org,2002:int" -> PyInt(n.value)
      [] n.tag = "tag:yaml.org,2002:str" -> PyStr(n.value)
      [] n.tag = "tag:yaml.org,2002:seq" ->
            PyList([i \in DOMAIN n.value |-> Construct(n.value[i])])
      [] n.tag = "tag:yaml.org,2002:map" ->
            PyDict([k \in DOMAIN n.value |-> Construct(n.value[k])])

ConstructorError == Py("ConstructorError", "raised")

YamlSafeLoad(doc) ==
    IF Constructible(doc) THEN Construct(doc) ELSE ConstructorError

\* Variant: the payload is left at its default.
SerializeMessage_DropsPayload(source, msg_type, payload) ==
    YamlDump(PyDict(Message(PyStr(source), PyStr(msg_type), PyNone)))

\* serialize_message(source, msg_type, payload=None)
SerializeMessage(source, msg_type, payload) ==
    YamlDump(PyDict(Message(PyStr(source), PyStr(msg_type), payload)))

\* deserialize_message(message)
DeserializeMessage(msg) == YamlSafeLoad(msg)

\* The payloads that are handed to serialize_message: the default, a flag,
\* a count, a text, a list, a worker's checklist dict, and a tuple.
MsgPayloads ==
    {PyNone,
     PyTrue,
     PyInt(42),
     PyStr(str_nowcast),
     PyList(<<PyStr(str_nowcast), PyStr(str_forecast)>>),
     PyDict([forecast |-> PyList(<<PyStr(str_forecast2)>>)]),
     PyDict([nowcast |-> PyList(<<>>), checked |-> PyTrue]),
     PyTuple(<<PyStr(str_nowcast), PyInt(1)>>)}

NoWire == Node("none", "none")
NoValue == Py("none", "none")

MsgIdle ==
    /\ msg_pc = "idle"
    /\ parsed_worker = "watch_NEMO"
    /\ parsed_args = [choice |-> str_nowcast]
    /\ called = None
    /\ out_msg_type = <<>>
    /\ in_payload = PyNone
    /\ wire = NoWire
    /\ decoded = NoValue

\* A worker has parsed its command line and has a payload to report.
MsgInit ==
    /\ msg_pc = "parsed"
    /\ parsed_worker \in {"watch_NEMO", "ping_erddap"}
    /\ parsed_args \in ParsedArgs(parsed_worker)
    /\ called = None
    /\ out_msg_type = <<>>
    /\ in_payload \in MsgPayloads
    /\ wire = NoWire
    /\ decoded = NoValue

\* success(parsed_args) is called.
CallSuccess ==
    /\ msg_pc = "parsed"
    /\ called' = "success"
    /\ out_msg_type' = IF parsed_worker = "watch_NEMO"
                       THEN watch_NEMO_success(parsed_args)
                       ELSE ping_erddap_success(parsed_args)
    /\ msg_pc' = "typed"
    /\ UNCHANGED <<parsed_worker, parsed_args, in_payload, wire, decoded>>
    /\ UNCHANGED <<mgr_vars, web_vars, run_vars>>

\* failure(parsed_args) is called.
CallFailure ==
    /\ msg_pc = "parsed"
    /\ called' = "failure"
    /\ out_msg_type' = IF parsed_worker = "watch_NEMO"
                       THEN watch_NEMO_failure(parsed_args)
                       ELSE ping_erddap_failure(parsed_args)
    /\ msg_pc' = "typed"
    /\ UNCHANGED <<parsed_worker, parsed_args, in_payload, wire, decoded>>
    /\ UNCHANGED <<mgr_vars, web_vars, run_vars>>

\* The message is serialized for the socket.
CallSerialize ==
    /\ msg_pc = "typed"
    /\ wire' = SerializeMessage(parsed_worker, out_msg_type, in_payload)
    /\ msg_pc' = "serialized"
    /\ UNCHANGED <<parsed_worker, parsed_args, called, out_msg_type,
                   in_payload, decoded>>
    /\ UNCHANGED <<mgr_vars, web_vars, run_vars>>

\* The receiver deserializes what came over the socket.
CallDeserialize ==
    /\ msg_pc = "serialized"
    /\ decoded' = DeserializeMessage(wire)
    /\ msg_pc' = "deserialized"
    /\ UNCHANGED <<parsed_worker, parsed_args, called, out_msg_type,
                   in_payload, wire>>
    /\ UNCHANGED <<mgr_vars, web_vars, run_vars>>

(***************************************************************************)
(* One run of a worker: main of make_forcing_links, make_plots,            *)
(* make_site_page, push_to_web and download_weather                        *)
(*                                                                         *)
(* The peer is any manager: it answers a message with one of its message   *)
(* types, or not at all.                                                   *)
(***************************************************************************)

str_nowcast_plus == <<"n", "o", "w", "c", "a", "s", "t", "+">>
str_ssh == <<"s", "s", "h">>
str_publish == <<"p", "u", "b", "l", "i", "s", "h">>
str_research == <<"r", "e", "s", "e", "a", "r", "c", "h">>

\* '{0.run_type} {0.plot_type}' after a word.
Format3(a, b, c) == a \o <<" ">> \o b \o <<" ">> \o c

\* The workers whose main wraps the work in try / except WorkerError /
\* except SystemExit / except.
GuardedWorkers ==
    {"make_forcing_links", "make_plots", "make_site_page", "push_to_web"}

RunWorkers == GuardedWorkers \cup {"download_weather"}

NoArg == <<>>

Args(run_type, plot_type, page_type, forecast) ==
    [run_type |-> run_type, plot_type |-> plot_type,
     page_type |-> page_type, forecast |-> forecast]

\* The command lines that each worker's argument parser accepts.
RunArgs(worker) ==
    CASE worker = "make_forcing_links" ->
            {Args(r, NoArg, NoArg, NoArg) :
                r \in {str_nowcast_plus, str_forecast2, str_ssh}}
      [] worker = "make_plots" ->
            {Args(r, p, NoArg, NoArg) :
                r \in {str_nowcast, str_forecast, str_forecast2},
                p \in {str_publish, str_research}}
      [] worker = "make_site_page" ->
            {Args(r, NoArg, p, NoArg) :
                r \in {str_nowcast, str_forecast, str_forecast2},
                p \in {str_publish, str_research}}
      [] worker = "push_to_web" -> {Args(NoArg, NoArg, NoArg, NoArg)}
      [] worker = "download_weather" ->
            {Args(NoArg, NoArg, NoArg, f) : f \in {str_06, str_18}}

\* The type of the message that main sends for a status word.
StatusMsgType(worker, status, args) ==
    CASE worker = "make_forcing_links" -> Format2(status, args.run_type)
      [] worker = "make_plots" ->
            Format3(status, args.run_type, args.plot_type)
      [] worker = "make_site_page" -> Format2(status, args.page_type)
      [] worker = "push_to_web" -> status
      [] worker = "download_weather" -> Format2(status, args.forecast)

\* The type of the message of each kind.
MsgTypeOf(worker, kind, args) ==
    CASE kind = "success" -> StatusMsgType(worker, str_success, args)
      [] kind = "failure" -> StatusMsgType(worker, str_failure, args)
      [] kind = "crash" -> str_crash
      [] kind = "the end" -> str_the_end

\* What the work function can raise.
Exceptions == {"WorkerError", "OSError", "Exception", "SystemExit"}

\* Variant: the except WorkerError clause is missing, so that WorkerError
\* reaches the bare except.
Handler_NoWorkerErrorClause(worker, exc) ==
    IF worker = "download_weather"
    THEN IF exc = "OSError" THEN "failure" ELSE "propagate"
    ELSE CASE exc = "SystemExit" -> "pass"
           [] OTHER -> "crash"

\* The except clause of main that handles an exception raised in the try
\* block: the kind of message it sends, "pass", or "propagate" when no
\* clause matches.
Handler(worker, exc) ==
    IF worker = "download_weather"
    THEN IF exc = "OSError" THEN "failure" ELSE "propagate"
    ELSE CASE exc = "WorkerError" -> "failure"
           [] exc = "SystemExit" -> "pass"
           [] OTHER -> "crash"

\* Variant: the test of the forecast is left out.
SendsTheEnd_AnyForecast(flag, args) == flag = "True"

\* download_weather: if success and parsed_args.forecast == '18'
SendsTheEnd(flag, args) == flag = "True" /\ args.forecast = str_18

\* Where main goes on when a message exchange of the try block or of an
\* except clause has returned.
AfterExchange(worker, kind) ==
    CASE worker = "download_weather" /\ kind = "the end" -> "finish"
      [] worker = "download_weather" -> "after_try"
      [] worker = "push_to_web" /\ kind = "success" -> "send_the_end"
      [] OTHER -> "finish"

RunIdle ==
    /\ run_pc = "idle"
    /\ run_worker = "push_to_web"
    /\ run_args = Args(NoArg, NoArg, NoArg, NoArg)
    /\ run_outcome = None
    /\ run_checklist = None
    /\ success = "unbound"
    /\ telling = None
    /\ run_sent = <<>>
    /\ run_replies = <<>>

\* main has prepared the worker and enters the try block.
RunInit ==
    /\ run_pc = "try"
    /\ run_worker \in RunWorkers
    /\ run_args \in RunArgs(run_worker)
    /\ run_outcome = None
    /\ run_checklist = None
    /\ success = "unbound"
    /\ telling = None
    /\ run_sent = <<>>
    /\ run_replies = <<>>

\* The work function returns (its checklist, in the guarded workers).
WorkReturns(c) ==
    /\ run_pc = "try"
    /\ run_outcome' = "returned"
    /\ run_checklist' = IF run_worker = "download_weather" THEN None ELSE c
    /\ success' = IF run_worker = "download_weather" THEN "True" ELSE success
    /\ telling' = "success"
    /\ run_pc' = "send"
    /\ UNCHANGED <<run_worker, run_args, run_sent, run_replies>>
    /\ UNCHANGED <<mgr_vars, web_vars, msg_vars>>

\* The work function raises; the matching except clause is entered.
WorkRaises(exc) ==
    /\ run_pc = "try"
    /\ run_outcome' = exc
    /\ LET clause == Handler(run_worker, exc)
       IN CASE clause = "propagate" ->
                  /\ run_pc' = "exited"
                  /\ UNCHANGED <<success, telling>>
            [] clause = "pass" ->
                  /\ run_pc' = "finish"
                  /\ UNCHANGED <<success, telling>>
            [] OTHER ->
                  /\ run_pc' = "send"
                  /\ telling' = clause
                  /\ success' = IF run_worker = "download_weather"
                                THEN "False" ELSE success
    /\ UNCHANGED <<run_worker, run_args, run_checklist, run_sent,
                   run_replies>>
    /\ UNCHANGED <<mgr_vars, web_vars, msg_vars>>

\* The message of the exchange that main is about to make.
RunMessage ==
    Message(run_worker, MsgTypeOf(run_worker, telling, run_args),
            IF telling = "success" THEN run_checklist ELSE None)

\* download_weather.tell_manager and the_end, up to socket.recv(): the
\* message is sent and its words are looked up for the log.
tell_manager_send ==
    /\ run_worker = "download_weather"
    /\ run_pc = "send"
    /\ run_sent' = Append(run_sent, RunMessage)
    /\ run_pc' = IF RunMessage.msg_type \in config.msg_types[run_worker]
                 THEN "recv" ELSE "exited"
    /\ UNCHANGED <<run_worker, run_args, run_outcome, run_checklist,
                   success, telling, run_replies>>
    /\ UNCHANGED <<mgr_vars, web_vars, msg_vars>>

\* download_weather.tell_manager and the_end, from socket.recv(): the
\* manager's reply arrives and its words are looked up for the log.
tell_manager_recv(r) ==
    /\ run_worker = "download_weather"
    /\ run_pc = "recv"
    /\ run_replies' = Append(run_replies, r)
    /\ run_pc' = IF r.msg_type \in config.msg_types[r.source]
                 THEN AfterExchange(run_worker, telling) ELSE "exited"
    /\ UNCHANGED <<run_worker, run_args, run_outcome, run_checklist,
                   success, telling, run_sent>>
    /\ UNCHANGED <<mgr_vars, web_vars, msg_vars>>

\* lib.tell_manager, first half: the message is sent.
lib_tell_manager_send ==
    /\ run_worker \in GuardedWorkers
    /\ run_pc = "send"
    /\ run_sent' = Append(run_sent, RunMessage)
    /\ run_pc' = "recv"
    /\ UNCHANGED <<run_worker, run_args, run_outcome, run_checklist,
                   success, telling, run_replies>>
    /\ UNCHANGED <<mgr_vars, web_vars, msg_vars>>

\* lib.tell_manager, second half: the manager's reply arrives and main
\* goes on.
lib_tell_manager_recv(r) ==
    /\ run_worker \in GuardedWorkers
    /\ run_pc = "recv"
    /\ run_replies' = Append(run_replies, r)
    /\ LET next == AfterExchange(run_worker, telling)
       IN IF next = "send_the_end"
          THEN /\ run_pc' = "send"
               /\ telling' = "the end"
          ELSE /\ run_pc' = next
               /\ UNCHANGED telling
    /\ UNCHANGED <<run_worker, run_args, run_outcome, run_checklist,
                   success, run_sent>>
    /\ UNCHANGED <<mgr_vars, web_vars, msg_vars>>

\* download_weather, after the try statement: 'the end' is sent or not.
AfterTry ==
    /\ run_pc = "after_try"
    /\ IF SendsTheEnd(success, run_args)
       THEN /\ run_pc' = "send"
            /\ telling' = "the end"
       ELSE /\ run_pc' = "finish"
            /\ UNCHANGED telling
    /\ UNCHANGED <<run_worker, run_args, run_outcome, run_checklist,
                   success, run_sent, run_replies>>
    /\ UNCHANGED <<mgr_vars, web_vars, msg_vars>>

\* An interrupt or terminate signal arrives while main waits for the
\* manager's reply: the handler raises SystemExit there.  In the try block
\* of a guarded worker except SystemExit catches it; anywhere else it
\* leaves main.
Signalled ==
    /\ run_pc = "recv"
    /\ run_pc' = IF /\ run_worker \in GuardedWorkers
                    /\ telling \in {"success", "the end"}
                 THEN "finish" ELSE "exited"
    /\ UNCHANGED <<run_worker, run_args, run_outcome, run_checklist,
                   success, telling, run_sent, run_replies>>
    /\ UNCHANGED <<mgr_vars, web_vars, msg_vars>>

\* context.destroy() and the last log line.
Finish ==
    /\ run_pc = "finish"
    /\ run_pc' = "done"
    /\ UNCHANGED <<run_worker, run_args, run_outcome, run_checklist,
                   success, telling, run_sent, run_replies>>
    /\ UNCHANGED <<mgr_vars, web_vars, msg_vars>>

(***************************************************************************)
(* Specifications                                                          *)
(***************************************************************************)

Init == MgrIdle /\ WebIdle /\ MsgIdle /\ RunIdle

Next ==
    \/ \E w \in Workers : \E t \in SentTypes(w) : \E p \in SentPayloads(w, t) :
            WorkerSend(w, t, p)
    \/ MgrRecv
    \/ MgrSend
    \/ MgrDoNothing
    \/ MgrUpdateChecklist
    \/ MgrFinishAutomation
    \/ MgrLaunchWorker
    \/ MgrSubprocessReturns
    \/ \E t \in ChildTypes :
         \E p \in SentPayloads("grib_to_netcdf", t) : ChildSend(t, p)
    \/ ChildFails
    \/ ChildSignalled

\* The manager and the workers.
Spec == Init /\ [][Next]_vars

WebSpecInit == MgrIdle /\ WebInit /\ MsgIdle /\ RunIdle

WebSpecNext ==
    \/ FirstAttemptOk
    \/ FirstAttemptFails
    \/ Sleep
    \/ RetryOk
    \/ RetryFails
    \/ GiveUp

\* One call of get_web_data.
WebSpec == WebSpecInit /\ [][WebSpecNext]_vars

\* get_web_data runs in a worker process that is scheduled until it
\* returns or raises.
WebLive == WebSpec /\ WF_vars(WebSpecNext)

MsgSpecInit == MgrIdle /\ WebIdle /\ MsgInit /\ RunIdle

MsgSpecNext ==
    \/ CallSuccess
    \/ CallFailure
    \/ CallSerialize
    \/ CallDeserialize

\* One message of a worker: its type, its serialization and back.
MsgSpec == MsgSpecInit /\ [][MsgSpecNext]_vars

RunSpecInit == MgrIdle /\ WebIdle /\ MsgIdle /\ RunInit

RunSpecNext ==
    \/ \E c \in Payloads : WorkReturns(c)
    \/ \E exc \in Exceptions : WorkRaises(exc)
    \/ tell_manager_send
    \/ \E r \in {reply_ack, reply_undefined} : tell_manager_recv(r)
    \/ lib_tell_manager_send
    \/ \E r \in {reply_ack, reply_undefined} : lib_tell_manager_recv(r)
    \/ AfterTry
    \/ Signalled
    \/ Finish

\* One run of one worker against any manager.
RunSpec == RunSpecInit /\ [][RunSpecNext]_vars

(***************************************************************************)
(* Properties of the manager (checked under Spec)                          *)
(***************************************************************************)

\* C1: a follow-up action (launch_worker, update_checklist,
\* finish_automation or do_nothing) starts only when the reply to every
\* message received so far, the current one included, has been sent.
C1_ReplyBeforeFollowUp ==
    [][steps' # steps => (sent = received /\ sent' = sent /\ sent > steps)]_vars

\* C1 witness: update_checklist has run as the follow-up of a message whose
\* reply was sent.
C1_Witness ==
    /\ mgr_pc = "listening"
    /\ next_step = "update_checklist"
    /\ steps >= 1
    /\ sent = steps
    /\ worker_reply[message.source] = reply_ack

\* C2: parse_message yields a reply for every message, and when the manager
\* is back at socket.recv() it has sent one reply and run one follow-up
\* action (do_nothing included) for each message received.
C2_EveryMessageAnswered ==
    /\ exception \notin {"UnboundLocalError", "KeyError"}
    /\ sent <= received
    /\ received <= sent + 1
    /\ mgr_pc = "listening" => (sent = received /\ steps = received)

\* C3: the manager does not wait for a worker it launched: it is never
\* blocked in launch_worker while the launched process is still alive.
C3_LaunchedAndAbandoned ==
    ~(mgr_pc = "in_subprocess" /\ child_pc \in {"running", "awaiting"})

\* C4: when finish_automation has run for a 'the end' message and the
\* manager listens for the next message, the checklist is empty.
C4_ChecklistClearedByTheEnd ==
    (mgr_pc = "listening" /\ next_step = "finish_automation")
        => checklist = EmptyDict

IsFailureOrCrash(msg_type) ==
    StartsWith(msg_type, str_failure) \/ msg_type = str_crash

\* C5: a failure or crash message of a type defined for its source gets
\* the reply 'ack' and the follow-up do_nothing.
C5_FailureAcknowledged ==
    \A e \in dispatch_log :
        (/\ IsFailureOrCrash(e.message.msg_type)
         /\ e.message.msg_type \in config_msg_types[e.message.source])
        => /\ e.parsed.raised = "none"
           /\ e.parsed.reply = reply_ack
           /\ e.parsed.next_step = "do_nothing"

\* The arguments of the follow-up action without the payload.
StaticArgs(parsed) ==
    IF parsed.next_step = "update_checklist"
    THEN SubSeq(parsed.next_step_args, 1, 2)
    ELSE parsed.next_step_args

\* C6: whatever the checklist held and whatever was handled before, two
\* messages with the same source and the same type got the same outcome of
\* parse_message: the same reply, the same follow-up action and the same
\* arguments but for the payload.
C6_DispatchIsStatic ==
    \A e1, e2 \in dispatch_log :
        (/\ e1.message.source = e2.message.source
         /\ e1.message.msg_type = e2.message.msg_type)
        => /\ e1.parsed.raised = e2.parsed.raised
           /\ e1.parsed.reply = e2.parsed.reply
           /\ e1.parsed.next_step = e2.parsed.next_step
           /\ StaticArgs(e1.parsed) = StaticArgs(e2.parsed)

\* C6 witness: the same source and type were handled twice, with different
\* payloads and with different checklist contents.
C6_Witness ==
    \E e1, e2 \in dispatch_log :
        /\ e1.message.source = e2.message.source
        /\ e1.message.msg_type = e2.message.msg_type
        /\ e1.message.payload # e2.message.payload
        /\ e1.checklist # e2.checklist
        /\ e1.parsed.next_step = "update_checklist"

(***************************************************************************)
(* Properties of get_web_data (checked under WebSpec and WebLive)          *)
(***************************************************************************)

RECURSIVE Pow(_, _)
Pow(b, e) == IF e = 0 THEN 1 ELSE b * Pow(b, e - 1)

DefaultArguments ==
    /\ first_retry_delay = default_first_retry_delay
    /\ retry_backoff_factor = default_retry_backoff_factor
    /\ retry_time_limit = default_retry_time_limit

\* C7: the first wait is first_retry_delay seconds, and every later wait
\* is the wait before it multiplied by retry_backoff_factor.
C7_Backoff ==
    wait # Unset =>
        IF prev_wait = Unset
        THEN wait = first_retry_delay
        ELSE wait = prev_wait * retry_backoff_factor

\* C7 witness: the third or a later wait, longer than the one before.
C7_Witness ==
    /\ web_pc = "retry"
    /\ retries >= 2
    /\ prev_wait # Unset
    /\ wait > prev_wait

\* C8: no wait is longer than retry_time_limit; with the default arguments
\* the k-th wait is 2^k seconds, and when every attempt has failed there
\* were 11 retries and the last wait was 2048 seconds.
C8_DefaultWaits ==
    /\ wait # Unset => wait <= retry_time_limit
    /\ DefaultArguments =>
        /\ web_pc = "retry" => wait = Pow(2, retries + 1)
        /\ web_pc = "raised" => (retries = 11 /\ wait = 2048)

\* C8 witness: with the default arguments every attempt failed.
C8_Witness ==
    /\ DefaultArguments
    /\ web_pc = "raised"
    /\ wait = 2048

\* C9 as stated: for all non-negative arguments get_web_data returns or
\* raises after finitely many attempts.
C9_AlwaysTerminates == <>WebDone

\* C9 amended: get_web_data returns or raises after finitely many attempts
\* when the first delay is positive and the backoff factor is greater than
\* 1, or when the first delay already exceeds the time limit.
C9_TerminatesWhenDelayGrows ==
    (\/ first_retry_delay > retry_time_limit
     \/ (first_retry_delay > 0 /\ retry_backoff_factor > 1))
        => <>WebDone

\* C9 witness: WorkerError raised after several failed retries with a
\* growing delay.
C9_Witness ==
    /\ web_pc = "raised"
    /\ first_retry_delay > 0
    /\ retry_backoff_factor > 1
    /\ retries >= 2

\* C10: at most one attempt succeeds, get_web_data returns its content, and
\* WorkerError is raised only when no attempt succeeded, the initial
\* attempt and each retry failed, and the retries made are all those whose
\* wait is within retry_time_limit.
C10_FirstSuccessOrAllFailed ==
    /\ successes <= 1
    /\ successes = 1 <=> web_pc = "returned"
    /\ web_pc = "returned" =>
        (response \in Contents /\ result = HandleUrlContent(response))
    /\ web_pc = "raised" =>
        /\ successes = 0
        /\ response = HTTPError
        /\ attempts = retries + 1
        /\ delay = first_retry_delay * Pow(retry_backoff_factor, retries)
        /\ delay > retry_time_limit
        /\ \A k \in 0..(retries - 1) :
            first_retry_delay * Pow(retry_backoff_factor, k)
                <= retry_time_limit

\* C10 witness: a retry succeeded after the initial attempt and a retry
\* had failed.
C10_Witness ==
    /\ web_pc = "returned"
    /\ attempts >= 3
    /\ successes = 1

(***************************************************************************)
(* More properties of the manager (checked under Spec)                     *)
(***************************************************************************)

\* C11: the WorkerError that run_in_subprocess raises for a launched
\* command with a non-zero exit status is handled: it does not end the
\* manager's loop.
C11_WorkerErrorHandled ==
    ~(mgr_pc = "crashed" /\ exception = "WorkerError")

\* The workers whose success messages are recorded, and their keys.
ChecklistWorkers == {"get_NeahBay_ssh", "make_runoff_file", "grib_to_netcdf"}

ChecklistKey(worker) ==
    CASE worker = "get_NeahBay_ssh" -> "sshNeahBay"
      [] worker = "make_runoff_file" -> "rivers"
      [] worker = "grib_to_netcdf" -> "weather forcing"

ChecklistKeys == {ChecklistKey(w) : w \in ChecklistWorkers}

\* C12: a success message from get_NeahBay_ssh, make_runoff_file or
\* grib_to_netcdf gets update_checklist as its follow-up; when that runs,
\* the entry under the worker's key becomes the message's payload and every
\* other entry stays as it was; the checklist never holds another key.
C12_EntryOverwritten ==
    /\ [](DOMAIN checklist \subseteq ChecklistKeys)
    /\ []((/\ mgr_pc \in {"send", "step"}
           /\ message.source \in ChecklistWorkers
           /\ StartsWith(message.msg_type, str_success))
          => next_step = "update_checklist")
    /\ [][(steps' # steps /\ next_step = "update_checklist") =>
            LET key == ChecklistKey(message.source)
            IN /\ DOMAIN checklist' = DOMAIN checklist \cup {key}
               /\ checklist'[key] = message.payload
               /\ \A k \in DOMAIN checklist \ {key} :
                    checklist'[k] = checklist[k]]_vars

\* C12 witness: an entry was replaced by a different payload while another
\* worker's entry was on the checklist.
C12_Witness ==
    /\ mgr_pc = "listening"
    /\ next_step = "update_checklist"
    /\ message.source = "get_NeahBay_ssh"
    /\ "rivers" \in DOMAIN checklist
    /\ \E e \in dispatch_log :
        /\ e.message = message
        /\ "sshNeahBay" \in DOMAIN e.checklist
        /\ e.checklist["sshNeahBay"] # message.payload
        /\ checklist["sshNeahBay"] = message.payload

\* C15: the launched worker never waits for the manager's reply while the
\* manager waits for that worker to exit.
C15_NoMutualWait ==
    ~(mgr_pc = "in_subprocess" /\ child_pc = "awaiting")

\* C16: a message whose type is not defined for its source gets the reply
\* 'undefined msg' and the follow-up do_nothing.
C16_UndefinedRejected ==
    \A e \in dispatch_log :
        e.message.msg_type \notin config_msg_types[e.message.source]
        => /\ e.parsed.raised = "none"
           /\ e.parsed.reply = reply_undefined
           /\ e.parsed.next_step = "do_nothing"

\* The success messages of the three checklist workers handled so far.
RecordedSuccesses ==
    {e \in dispatch_log :
        /\ e.message.source \in ChecklistWorkers
        /\ StartsWith(e.message.msg_type, str_success)}

OneSuccessFromEach ==
    /\ mgr_pc = "listening"
    /\ received = 3
    /\ steps = 3
    /\ Cardinality(RecordedSuccesses) = 3
    /\ \A w \in ChecklistWorkers :
        \E e \in RecordedSuccesses : e.message.source = w

\* C19: when one success message from each of get_NeahBay_ssh,
\* make_runoff_file and grib_to_netcdf has been handled, in whatever order,
\* the checklist holds each worker's payload under that worker's key.
C19_UpdatesCommute ==
    OneSuccessFromEach =>
        /\ DOMAIN checklist = ChecklistKeys
        /\ \A e \in RecordedSuccesses :
            checklist[ChecklistKey(e.message.source)] = e.message.payload

\* C19 witness: the three messages were handled with get_NeahBay_ssh last.
C19_Witness ==
    /\ OneSuccessFromEach
    /\ \E e \in RecordedSuccesses :
        /\ e.message.source = "get_NeahBay_ssh"
        /\ DOMAIN e.checklist = {"rivers", "weather forcing"}

(***************************************************************************)
(* Properties of the messages (checked under MsgSpec)                      *)
(***************************************************************************)

\* The message dict that went into serialize_message.
SentDict ==
    PyDict([source |-> PyStr(parsed_worker),
            msg_type |-> PyStr(out_msg_type),
            payload |-> in_payload])

\* A value made of None, booleans, integers, strings, lists and dicts.
RECURSIVE IsPlainData(_)
IsPlainData(v) ==
    \/ v.type \in {"NoneType", "bool", "int", "str"}
    \/ /\ v.type \in {"list", "dict"}
       /\ \A k \in DOMAIN v.val : IsPlainData(v.val[k])

\* C13 as stated: whatever payload yaml.dump has serialized,
\* deserialize_message gives back the dict with the original source,
\* msg_type and payload.
C13_RoundTrip ==
    msg_pc = "deserialized" => decoded = SentDict

\* C13 amended: for a payload made of None, booleans, integers, strings,
\* lists and dicts, deserialize_message gives back a dict with exactly the
\* keys source, msg_type and payload, holding the original values.
C13_RoundTripOfPlainData ==
    (msg_pc = "deserialized" /\ IsPlainData(in_payload)) =>
        /\ decoded.type = "dict"
        /\ DOMAIN decoded.val = {"source", "msg_type", "payload"}
        /\ decoded.val.source = PyStr(parsed_worker)
        /\ decoded.val.msg_type = PyStr(out_msg_type)
        /\ decoded.val.payload = in_payload

\* C13 witness: a checklist dict went through serialization and back.
C13_Witness ==
    /\ msg_pc = "deserialized"
    /\ in_payload.type = "dict"
    /\ decoded.type = "dict"
    /\ decoded.val.payload = in_payload

\* C14: success(parsed_args) returns 'success <x>' and failure(parsed_args)
\* returns 'failure <x>', <x> being the run type or dataset of the command
\* line.
C14_MessageTypes ==
    called # None =>
        LET word == IF called = "success" THEN str_success ELSE str_failure
        IN /\ StartsWith(out_msg_type, word)
           /\ EndsWith(out_msg_type, parsed_args.choice)
           /\ Len(out_msg_type) = Len(word) + 1 + Len(parsed_args.choice)
           /\ out_msg_type[Len(word) + 1] = " "

\* C14 witness: watch_NEMO's failure was called for a 'forecast2' run.
C14_Witness ==
    /\ parsed_worker = "watch_NEMO"
    /\ called = "failure"
    /\ parsed_args.choice = str_forecast2
    /\ out_msg_type = str_failure \o <<" ">> \o str_forecast2

(***************************************************************************)
(* Properties of a worker's run (checked under RunSpec)                    *)
(***************************************************************************)

IsOutcomeType(t) ==
    StartsWith(t, str_success) \/ StartsWith(t, str_failure) \/ t = str_crash

OutcomesSent == {i \in DOMAIN run_sent : IsOutcomeType(run_sent[i].msg_type)}

\* The kind of outcome that the claim gives for each ending of the work.
ReportedKind(outcome) ==
    CASE outcome = "returned" -> "success"
      [] outcome = "WorkerError" -> "failure"
      [] outcome = "SystemExit" -> "nothing"
      [] OTHER -> "crash"

\* C17: a run of make_forcing_links, make_plots, make_site_page or
\* push_to_web never sends more than one of success, failure and crash, and
\* when main is through it has sent 'success ...' with the checklist if the
\* work returned, 'failure ...' if it raised WorkerError, 'crash' if it
\* raised another exception, and nothing if it raised SystemExit.
C17_OneOutcome ==
    run_worker \in GuardedWorkers =>
        /\ Cardinality(OutcomesSent) <= 1
        /\ run_pc = "done" =>
              LET kind == ReportedKind(run_outcome)
              IN IF kind = "nothing"
                 THEN run_sent = <<>>
                 ELSE /\ OutcomesSent = {1}
                      /\ run_sent[1] =
                            Message(run_worker,
                                    MsgTypeOf(run_worker, kind, run_args),
                                    IF kind = "success"
                                    THEN run_checklist ELSE None)
                      /\ kind = "success" => run_checklist \in Payloads

\* C17 witness: make_site_page's work raised WorkerError and main went
\* through to the end having sent 'failure research'.
C17_Witness ==
    /\ run_worker = "make_site_page"
    /\ run_pc = "done"
    /\ run_outcome = "WorkerError"
    /\ Len(run_sent) = 1
    /\ run_sent[1].msg_type = str_failure \o <<" ">> \o str_research

\* C18: 'the end' is only ever sent by download_weather right after its
\* 'success 18' and by push_to_web right after its 'success', and the
\* manager's reply to that success message was received before.
C18_TheEndAfterSuccess ==
    \A i \in DOMAIN run_sent :
        run_sent[i].msg_type = str_the_end =>
            /\ run_worker \in {"download_weather", "push_to_web"}
            /\ i = 2
            /\ run_sent[1].source = run_worker
            /\ run_sent[1].msg_type =
                  IF run_worker = "download_weather"
                  THEN success_18 ELSE str_success
            /\ Len(run_replies) >= 1

\* C18 witness: download_weather has sent 'success 18', got the reply, and
\* sent 'the end'.
C18_Witness ==
    /\ run_worker = "download_weather"
    /\ Len(run_sent) = 2
    /\ run_sent[1].msg_type = success_18
    /\ run_sent[2].msg_type = str_the_end
    /\ Len(run_replies) >= 1

=============================================================================
